---- MODULE Spec2Model ----
(***************************************************************************)
(* Model of the ProjectWord flashcard application: the user table, the     *)
(* card table, the per-user Progress aggregate and the per-pair            *)
(* UserCardProgress rows, together with the request handlers that change   *)
(* them (app/main.py, app/api/*.py) and the guards of app/auth.py.         *)
(*                                                                         *)
(* Spec        every handler is one atomic step (requests run one by one). *)
(* SpecLedger  Spec restricted to the requests of the progress ledger.     *)
(* SpecAdmin   Spec restricted to the requests of user management.         *)
(* SpecStudy   Spec restricted to the study requests.                       *)
(* SpecProfile Spec restricted to the requests on a user's Progress row.   *)
(* SpecLogin   Spec restricted to the login forms.                         *)
(* SpecClock   requests presenting the issued tokens while time passes.    *)
(* SpecConc    the mark-complete handlers run as interleaved steps, one    *)
(*             step per database round trip, over concurrent requests.     *)
(* SpecSignup  registration run as interleaved steps.                      *)
(* SpecCookie  requests presenting every shape of cookie value.            *)
(* SpecToken   create_access_token and jwt.decode while time passes.       *)
(* SpecRace    user management run as interleaved steps.                   *)
(* SpecCreate  explicit creation of the Progress row, atomic and stepwise. *)
(* SpecFrame   the requests that write the caller's own progress.          *)
(* SpecReset   resets of card progress while card owners change role.      *)
(*                                                                         *)
(* The store is the default one of app/database.py (SQLite): an integer    *)
(* primary key is max(id)+1, foreign keys are not enforced, the unique     *)
(* constraints of app/models.py are.                                       *)
(***************************************************************************)
EXTENDS Integers, Sequences, FiniteSets, TLC

\* ---------------------------------------------------------------- bounds
MaxUsers == 2
MaxCards == 1
MaxCount == 2
MaxReqs == 2
MaxTime == 32
MaxTokens == 1

UserIds == 1..MaxUsers
CardIds == 1..MaxCards
Slots == 1..MaxReqs
Names == {"alice", "bob"}
Passwords == {"secret1"}
\* values a client may send as completed_cards / marked_important
CountInputs == {-1, 0, 1}

NoRow == [none |-> TRUE]
NoToken == 0
NoCookie == [bearer |-> FALSE, sub |-> NoToken]
Idle == [pc |-> "idle"]

\* validity of the token issued at login, in minutes
TokenMinutes == 30
\* the module constant of app/auth.py, in minutes
ACCESS_TOKEN_EXPIRE_MINUTES == 30
\* "expires_delta or timedelta(minutes=15)": None and a zero timedelta are
\* both false, and the default is used for them
NoDelta == 0
DefaultDelta == 15

VARIABLES
    users,      \* table users: id -> row or NoRow
    cards,      \* table cards: id -> row or NoRow
    progress,   \* table progress: user_id -> sequence of rows (in id order)
    ucp,        \* table user_card_progress: <<user_id, card_id>> -> row or NoRow
    tokens,     \* subjects of the signed, unexpired tokens in circulation
    reqs,       \* in-flight requests of SpecConc: slot -> local state
    now,        \* the server's clock, in minutes
    jwts,       \* the tokens issued: subject and expiry ("sub", "exp")
    last        \* the last request and its outcome (history variable)

vars == <<users, cards, progress, ucp, tokens, reqs, now, jwts, last>>

\* ------------------------------------------------------------- the tables
User(name, hashed) ==
    [username |-> name, hashed_password |-> hashed, is_active |-> TRUE, is_admin |-> FALSE]

Card(owner) == [owner_id |-> owner, is_public |-> TRUE]

Progress(total, completed, marked) ==
    [total_cards |-> total, completed_cards |-> completed, marked_important |-> marked]

UserCardProgress(done) ==
    [is_completed |-> done, completed_at |-> IF done THEN "set" ELSE "null"]

Max(S) == CHOOSE x \in S : \A y \in S : y <= x

\* SQLite rowid allocation for an INTEGER PRIMARY KEY column
NextId(table) == Max({i \in DOMAIN table : table[i] # NoRow} \cup {0}) + 1

get_password_hash(password) == <<"sha256_crypt", password>>

verify_password(plain, hashed) == hashed = get_password_hash(plain)

UserByName(name) == {u \in UserIds : users[u] # NoRow /\ users[u].username = name}

PublicCards == {c \in CardIds : cards[c] # NoRow /\ cards[c].is_public}

\* ------------------------------------------------------------- the guards
\* Each returns [st |-> HTTP status, u |-> user id]; st = 200 means resolved.
Resolved(u) == [st |-> 200, u |-> u]
Denied(st) == [st |-> st, u |-> 0]

get_current_user(tok) ==
    IF tok = NoToken THEN Denied(401)
    ELSE IF users[tok] = NoRow THEN Denied(401)
    ELSE Resolved(tok)

get_current_active_user(tok) ==
    LET r == get_current_user(tok) IN
    IF r.st # 200 THEN r
    ELSE IF ~users[r.u].is_active THEN Denied(400)
    ELSE r

require_admin(tok) ==
    LET r == get_current_active_user(tok) IN
    IF r.st # 200 THEN r
    ELSE IF ~users[r.u].is_admin THEN Denied(403)
    ELSE r

\* app.auth.get_user_from_cookie: the cookie value is decoded as it stands,
\* so a value "Bearer <token>" is no token.  0 stands for None.
get_user_from_cookie(cookie) ==
    IF cookie.sub = NoToken THEN 0
    ELSE IF cookie.bearer THEN 0
    ELSE IF users[cookie.sub] = NoRow THEN 0
    ELSE IF ~users[cookie.sub].is_active THEN 0
    ELSE cookie.sub

\* app.api.progress.get_user_from_cookie: the value must start with "Bearer ".
progress_get_user_from_cookie(cookie) ==
    IF cookie.sub = NoToken \/ ~cookie.bearer THEN 0
    ELSE IF users[cookie.sub] = NoRow THEN 0
    ELSE IF ~users[cookie.sub].is_active THEN 0
    ELSE cookie.sub

require_admin_cookie(cookie) ==
    LET u == get_user_from_cookie(cookie) IN
    IF u = 0 THEN Denied(401)
    ELSE IF ~users[u].is_admin THEN Denied(403)
    ELSE Resolved(u)

\* jwt.decode: the subject of a token, or no token once "exp" is behind the
\* clock (python-jose rejects exp < now)
jwt_decode(t) == IF t.exp < now THEN NoToken ELSE t.sub

\* the cookie login_web writes: "Bearer <token>"
login_web_cookie(t) == [bearer |-> TRUE, sub |-> jwt_decode(t)]

\* what a client can present
BearerTokens == tokens \cup {NoToken}
Cookies == {NoCookie} \cup [bearer : BOOLEAN, sub : tokens]

\* ------------------------------------------------------- history variable
Last(op, u, arg, st, ok, before, was) ==
    [op |-> op, user |-> u, arg |-> arg, status |-> st, ok |-> ok,
     before |-> before, was |-> was, body |-> <<>>]

Plain(op, u, arg, st, ok) == Last(op, u, arg, st, ok, 0, FALSE)

Init ==
    /\ users = [u \in UserIds |-> NoRow]
    /\ cards = [c \in CardIds |-> NoRow]
    /\ progress = [u \in UserIds |-> <<>>]
    /\ ucp = [p \in UserIds \X CardIds |-> NoRow]
    /\ tokens = {}
    /\ reqs = [s \in Slots |-> Idle]
    /\ now = 0
    /\ jwts = {}
    /\ last = Plain("init", 0, 0, 0, FALSE)

\* ------------------------------------------------ accounts and sessions
register(name, password) ==
    /\ UNCHANGED <<cards, progress, ucp, tokens, reqs, now, jwts>>
    /\ IF UserByName(name) # {}
       THEN /\ UNCHANGED users
            /\ last' = Plain("register", 0, 0, 400, FALSE)
       ELSE /\ NextId(users) <= MaxUsers
            /\ users' = [users EXCEPT
                   ![NextId(users)] = User(name, get_password_hash(password))]
            /\ last' = Plain("register", 0, NextId(users), 201, TRUE)

\* jwt.encode of {"sub", "exp"}: the signature is not modelled, a token is
\* what the server signed
create_access_token(sub, expires_delta) ==
    [sub |-> sub,
     exp |-> now + (IF expires_delta = NoDelta THEN DefaultDelta ELSE expires_delta)]

\* the answer of POST /auth/login: found is "the username has a row",
\* verified "the password matches its hash", active the row's is_active
login_response_revealing(found, verified, active) ==
    IF ~found
    THEN [status |-> 401, detail |-> "no_such_user", headers |-> "WWW-Authenticate"]
    ELSE IF ~verified
    THEN [status |-> 401, detail |-> "bad_credentials", headers |-> "WWW-Authenticate"]
    ELSE IF ~active
    THEN [status |-> 401, detail |-> "blocked", headers |-> "WWW-Authenticate"]
    ELSE [status |-> 200, detail |-> "access_token", headers |-> ""]

login_response(found, verified, active) ==
    IF ~found \/ ~verified
    THEN [status |-> 401, detail |-> "bad_credentials", headers |-> "WWW-Authenticate"]
    ELSE IF ~active
    THEN [status |-> 401, detail |-> "blocked", headers |-> "WWW-Authenticate"]
    ELSE [status |-> 200, detail |-> "access_token", headers |-> ""]

\* the answer of POST /auth/login-web: the login page with an error and the
\* submitted username, or the redirect that sets the cookie
login_web_response(found, verified, active, username) ==
    IF ~found \/ ~verified
    THEN [status |-> 401, template |-> "login.html", error |-> "bad_credentials",
          username |-> username]
    ELSE IF ~active
    THEN [status |-> 401, template |-> "login.html", error |-> "blocked",
          username |-> username]
    ELSE [status |-> 303, template |-> "", error |-> "", username |-> ""]

\* what the handlers read for a login form
Found(name) == UserByName(name) # {}
Verified(name, password) ==
    \E u \in UserByName(name) : verify_password(password, users[u].hashed_password)
Active(name) == \E u \in UserByName(name) : users[u].is_active

login(name, password) ==
    LET resp == login_response(Found(name), Verified(name, password), Active(name)) IN
    /\ UNCHANGED <<users, cards, progress, ucp, reqs, now>>
    /\ IF ~Found(name) \/ ~Verified(name, password)
       THEN /\ UNCHANGED <<tokens, jwts>>
            /\ last' = [Plain("login", 0, 0, resp.status, FALSE) EXCEPT
                           !.body = <<resp.detail, resp.headers>>]
       ELSE LET u == CHOOSE u \in UserByName(name) : TRUE IN
            IF ~users[u].is_active
            THEN /\ UNCHANGED <<tokens, jwts>>
                 /\ last' = [Plain("login", 0, u, resp.status, FALSE) EXCEPT
                                !.body = <<resp.detail, resp.headers>>]
            ELSE /\ tokens' = tokens \cup {u}
                 /\ jwts' = jwts \cup {create_access_token(u, TokenMinutes)}
                 /\ last' = [Plain("login", 0, u, resp.status, TRUE) EXCEPT
                                !.body = <<resp.detail, resp.headers>>]

login_web(name, password) ==
    LET resp == login_web_response(Found(name), Verified(name, password),
                                   Active(name), name)
    IN
    /\ UNCHANGED <<users, cards, progress, ucp, reqs, now>>
    /\ IF ~Found(name) \/ ~Verified(name, password)
       THEN /\ UNCHANGED <<tokens, jwts>>
            /\ last' = [Plain("login_web", 0, 0, resp.status, FALSE) EXCEPT
                           !.body = <<resp.template, resp.error, resp.username>>]
       ELSE LET u == CHOOSE u \in UserByName(name) : TRUE IN
            IF ~users[u].is_active
            THEN /\ UNCHANGED <<tokens, jwts>>
                 /\ last' = [Plain("login_web", 0, u, resp.status, FALSE) EXCEPT
                                !.body = <<resp.template, resp.error, resp.username>>]
            ELSE /\ tokens' = tokens \cup {u}
                 /\ jwts' = jwts \cup {create_access_token(u, TokenMinutes)}
                 /\ last' = [Plain("login_web", 0, u, resp.status, TRUE) EXCEPT
                                !.body = <<resp.template, resp.error, resp.username>>]

\* application start: with users but no admin, the lowest id becomes admin
init_models ==
    /\ UNCHANGED <<cards, progress, ucp, tokens, reqs, now, jwts>>
    /\ LET admin_count == Cardinality({u \in UserIds :
                              users[u] # NoRow /\ users[u].is_admin})
           user_count == Cardinality({u \in UserIds : users[u] # NoRow})
           first == CHOOSE u \in UserIds :
                       /\ users[u] # NoRow
                       /\ \A v \in UserIds : users[v] # NoRow => u <= v
       IN IF admin_count = 0 /\ user_count > 0
          THEN /\ users' = [users EXCEPT ![first].is_admin = TRUE]
               /\ last' = Plain("init_models", 0, first, 0, TRUE)
          ELSE /\ UNCHANGED users
               /\ last' = Plain("init_models", 0, 0, 0, FALSE)

dev_make_admin(name) ==
    /\ UNCHANGED <<cards, progress, ucp, tokens, reqs, now, jwts>>
    /\ IF UserByName(name) # {}
       THEN LET u == CHOOSE u \in UserByName(name) : TRUE IN
            /\ users' = [users EXCEPT ![u].is_admin = TRUE]
            /\ last' = Plain("dev_make_admin", 0, u, 200, TRUE)
       ELSE /\ UNCHANGED users
            /\ last' = Plain("dev_make_admin", 0, 0, 200, FALSE)

\* ---------------------------------------------------------------- cards
create_card_web(cookie) ==
    LET g == require_admin_cookie(cookie) IN
    /\ UNCHANGED <<users, progress, ucp, tokens, reqs, now, jwts>>
    /\ IF g.st # 200
       THEN /\ UNCHANGED cards
            /\ last' = Plain("create_card_web", 0, 0, g.st, FALSE)
       ELSE /\ NextId(cards) <= MaxCards
            /\ cards' = [cards EXCEPT ![NextId(cards)] = Card(g.u)]
            /\ last' = Plain("create_card_web", g.u, NextId(cards), 303, TRUE)

\* mutant: delete_card_web removing the per-pair rows of the card as well
delete_card_web_cascading(cookie, card_id) ==
    LET g == require_admin_cookie(cookie) IN
    /\ UNCHANGED <<users, progress, tokens, reqs, now, jwts>>
    /\ IF g.st # 200
       THEN /\ UNCHANGED <<cards, ucp>>
            /\ last' = Plain("delete_card_web", 0, card_id, g.st, FALSE)
       ELSE IF cards[card_id] = NoRow
       THEN /\ UNCHANGED <<cards, ucp>>
            /\ last' = Plain("delete_card_web", g.u, card_id, 404, FALSE)
       ELSE /\ cards' = [cards EXCEPT ![card_id] = NoRow]
            /\ ucp' = [p \in UserIds \X CardIds |->
                          IF p[2] = card_id THEN NoRow ELSE ucp[p]]
            /\ last' = Plain("delete_card_web", g.u, card_id, 303, TRUE)

delete_card_web(cookie, card_id) ==
    LET g == require_admin_cookie(cookie) IN
    /\ UNCHANGED <<users, progress, ucp, tokens, reqs, now, jwts>>
    /\ IF g.st # 200
       THEN /\ UNCHANGED cards
            /\ last' = Plain("delete_card_web", 0, card_id, g.st, FALSE)
       ELSE IF cards[card_id] = NoRow
       THEN /\ UNCHANGED cards
            /\ last' = Plain("delete_card_web", g.u, card_id, 404, FALSE)
       ELSE /\ cards' = [cards EXCEPT ![card_id] = NoRow]
            /\ last' = Plain("delete_card_web", g.u, card_id, 303, TRUE)

\* ------------------------------------------------------ user management
\* the "user_id == current_user.id" test of each handler
toggle_user_active_self(user_id, current) == user_id = current

\* mutant: toggle_user_admin without its self check
toggle_user_admin_self_dropped(user_id, current) == FALSE

toggle_user_admin_self(user_id, current) == user_id = current

delete_user_admin_self(user_id, current) == user_id = current

delete_user_self(user_id, current) == user_id = current

toggle_user_active(cookie, user_id) ==
    LET g == require_admin_cookie(cookie) IN
    /\ UNCHANGED <<cards, progress, ucp, tokens, reqs, now, jwts>>
    /\ IF g.st # 200
       THEN /\ UNCHANGED users
            /\ last' = Plain("toggle_user_active", 0, user_id, g.st, FALSE)
       ELSE IF toggle_user_active_self(user_id, g.u)
       THEN /\ UNCHANGED users
            /\ last' = Plain("toggle_user_active", g.u, user_id, 303, FALSE)
       ELSE IF users[user_id] = NoRow
       THEN /\ UNCHANGED users
            /\ last' = Plain("toggle_user_active", g.u, user_id, 404, FALSE)
       ELSE /\ users' = [users EXCEPT
                   ![user_id].is_active = ~users[user_id].is_active]
            /\ last' = Plain("toggle_user_active", g.u, user_id, 303, TRUE)

toggle_user_admin(cookie, user_id) ==
    LET g == require_admin_cookie(cookie) IN
    /\ UNCHANGED <<cards, progress, ucp, tokens, reqs, now, jwts>>
    /\ IF g.st # 200
       THEN /\ UNCHANGED users
            /\ last' = Plain("toggle_user_admin", 0, user_id, g.st, FALSE)
       ELSE IF toggle_user_admin_self(user_id, g.u)
       THEN /\ UNCHANGED users
            /\ last' = Plain("toggle_user_admin", g.u, user_id, 303, FALSE)
       ELSE IF users[user_id] = NoRow
       THEN /\ UNCHANGED users
            /\ last' = Plain("toggle_user_admin", g.u, user_id, 404, FALSE)
       ELSE /\ users' = [users EXCEPT
                   ![user_id].is_admin = ~users[user_id].is_admin]
            /\ last' = Plain("toggle_user_admin", g.u, user_id, 303, TRUE)

\* POST /admin/users/{id}/delete: progress, per-pair rows and the user go
delete_user_admin(cookie, user_id) ==
    LET g == require_admin_cookie(cookie) IN
    /\ UNCHANGED <<cards, tokens, reqs, now, jwts>>
    /\ IF g.st # 200
       THEN /\ UNCHANGED <<users, progress, ucp>>
            /\ last' = Plain("delete_user_admin", 0, user_id, g.st, FALSE)
       ELSE IF delete_user_admin_self(user_id, g.u)
       THEN /\ UNCHANGED <<users, progress, ucp>>
            /\ last' = Plain("delete_user_admin", g.u, user_id, 303, FALSE)
       ELSE IF users[user_id] = NoRow
       THEN /\ UNCHANGED <<users, progress, ucp>>
            /\ last' = Plain("delete_user_admin", g.u, user_id, 404, FALSE)
       ELSE /\ progress' = [progress EXCEPT ![user_id] = <<>>]
            /\ ucp' = [p \in UserIds \X CardIds |->
                          IF p[1] = user_id THEN NoRow ELSE ucp[p]]
            /\ users' = [users EXCEPT ![user_id] = NoRow]
            /\ last' = Plain("delete_user_admin", g.u, user_id, 303, TRUE)

\* DELETE /admin/users/{id}: only the users row is deleted
delete_user(tok, user_id) ==
    LET g == require_admin(tok) IN
    /\ UNCHANGED <<cards, progress, ucp, tokens, reqs, now, jwts>>
    /\ IF g.st # 200
       THEN /\ UNCHANGED users
            /\ last' = Plain("delete_user", 0, user_id, g.st, FALSE)
       ELSE IF delete_user_self(user_id, g.u)
       THEN /\ UNCHANGED users
            /\ last' = Plain("delete_user", g.u, user_id, 400, FALSE)
       ELSE IF users[user_id] = NoRow
       THEN /\ UNCHANGED users
            /\ last' = Plain("delete_user", g.u, user_id, 404, FALSE)
       ELSE /\ users' = [users EXCEPT ![user_id] = NoRow]
            /\ last' = Plain("delete_user", g.u, user_id, 204, TRUE)

\* ------------------------------------------------------ progress ledger
\* completed_cards of the user's Progress row; 0 while there is none
Agg(u) == IF progress[u] = <<>> THEN 0 ELSE progress[u][1].completed_cards

Completed(u, c) == ucp[<<u, c>>] # NoRow /\ ucp[<<u, c>>].is_completed

\* a request body field of ProgressCreate / ProgressUpdate: sent or left out
Field(v) == [set |-> TRUE, v |-> v]
Unset == [set |-> FALSE, v |-> 0]
CountFields == {Unset} \cup {Field(v) : v \in CountInputs}
MarkedFields == {Unset}
\* ProgressUpdate carries total_cards as well
TotalFields == {Unset} \cup {Field(v) : v \in CountInputs}

\* the cards the dashboard lists: public and owned by a present admin
user_cards == {c \in PublicCards :
                 /\ users[cards[c].owner_id] # NoRow
                 /\ users[cards[c].owner_id].is_admin}

create_progress(tok, completed, marked) ==
    LET g == get_current_active_user(tok) IN
    /\ UNCHANGED <<users, cards, ucp, tokens, reqs, now, jwts>>
    /\ IF g.st # 200
       THEN /\ UNCHANGED progress
            /\ last' = Plain("create_progress", 0, 0, g.st, FALSE)
       ELSE IF Len(progress[g.u]) > 1
       THEN /\ UNCHANGED progress
            /\ last' = Plain("create_progress", g.u, 0, 500, FALSE)
       ELSE IF Len(progress[g.u]) = 1
       THEN /\ UNCHANGED progress
            /\ last' = Plain("create_progress", g.u, 0, 409, FALSE)
       ELSE /\ progress' = [progress EXCEPT ![g.u] =
                   <<Progress(Cardinality(PublicCards), completed.v, marked.v)>>]
            /\ last' = Plain("create_progress", g.u, 0, 201, TRUE)

\* the checks of update_my_progress, made against the stored total_cards;
\* 200 when the update is accepted
UpdateValidation(upd_completed, upd_marked, total) ==
    IF upd_completed.v < 0 THEN 400
    ELSE IF upd_completed.v > total THEN 400
    ELSE IF upd_marked.v < 0 THEN 400
    ELSE 200

update_my_progress(tok, upd_total, upd_completed, upd_marked) ==
    LET g == get_current_active_user(tok) IN
    /\ UNCHANGED <<users, cards, ucp, tokens, reqs, now, jwts>>
    /\ IF g.st # 200
       THEN /\ UNCHANGED progress
            /\ last' = Plain("update_my_progress", 0, 0, g.st, FALSE)
       ELSE IF Len(progress[g.u]) > 1
       THEN /\ UNCHANGED progress
            /\ last' = Plain("update_my_progress", g.u, 0, 500, FALSE)
       ELSE IF Len(progress[g.u]) = 0
       THEN /\ UNCHANGED progress
            /\ last' = Plain("update_my_progress", g.u, 0, 404, FALSE)
       ELSE LET row == progress[g.u][1]
                st == UpdateValidation(upd_completed, upd_marked, row.total_cards)
            IN IF st # 200
               THEN /\ UNCHANGED progress
                    /\ last' = Plain("update_my_progress", g.u, 0, st, FALSE)
               ELSE /\ progress' = [progress EXCEPT ![g.u] = <<[row EXCEPT
                          !.total_cards =
                              IF upd_total.set THEN upd_total.v ELSE @,
                          !.completed_cards =
                              IF upd_completed.set THEN upd_completed.v ELSE @,
                          !.marked_important =
                              IF upd_marked.set THEN upd_marked.v ELSE @]>>]
                    /\ last' = Plain("update_my_progress", g.u, 0, 200, TRUE)

dashboard(cookie) ==
    LET u == get_user_from_cookie(cookie) IN
    /\ UNCHANGED <<users, cards, ucp, tokens, reqs, now, jwts>>
    /\ IF u = 0
       THEN /\ UNCHANGED progress
            /\ last' = Plain("dashboard", 0, 0, 303, FALSE)
       ELSE IF users[u].is_admin
       THEN /\ UNCHANGED progress
            /\ last' = Plain("dashboard", u, 0, 200, FALSE)
       ELSE IF Len(progress[u]) > 1
       THEN /\ UNCHANGED progress
            /\ last' = Plain("dashboard", u, 0, 500, FALSE)
       ELSE IF Len(progress[u]) = 1
       THEN /\ UNCHANGED progress
            /\ last' = Plain("dashboard", u, 0, 200, FALSE)
       ELSE /\ progress' = [progress EXCEPT ![u] =
                   <<Progress(Cardinality(user_cards), 0, 0)>>]
            /\ last' = Plain("dashboard", u, 0, 200, TRUE)

\* ---- mark complete: POST /progress/complete/{card_id}/web
\* the branch of complete_card_web that counts the card
CompleteCounts(ucp_seen) == ucp_seen = NoRow \/ ~ucp_seen.is_completed

\* the Progress rows of user u after the commit of complete_card_web, which
\* read prog_seen (NoRow: none, then total is the count of public cards read)
CompleteProgress(u, prog_seen, total, counts) ==
    IF prog_seen = NoRow
    THEN Append(progress[u], Progress(total, IF counts THEN 1 ELSE 0, 0))
    ELSE [progress[u] EXCEPT ![1].completed_cards =
             IF counts THEN prog_seen.completed_cards + 1 ELSE @]

\* the checks before any write; 200 when the handler goes on
CompleteChecks(u, card_id) ==
    IF u = 0 THEN 401
    ELSE IF users[u].is_admin THEN 403
    ELSE IF cards[card_id] = NoRow THEN 404
    ELSE IF ~cards[card_id].is_public THEN 403
    ELSE 200

ProgSeen(u) == IF progress[u] = <<>> THEN NoRow ELSE progress[u][1]

complete_card_web(cookie, card_id) ==
    LET u == progress_get_user_from_cookie(cookie)
        st == CompleteChecks(u, card_id)
    IN
    /\ UNCHANGED <<users, cards, tokens, reqs, now, jwts>>
    /\ IF st # 200
       THEN /\ UNCHANGED <<progress, ucp>>
            /\ last' = Plain("complete_card_web", u, card_id, st, FALSE)
       ELSE IF Len(progress[u]) > 1
       THEN /\ UNCHANGED <<progress, ucp>>
            /\ last' = Last("complete_card_web", u, card_id, 500, FALSE,
                            Agg(u), Completed(u, card_id))
       ELSE LET counts == CompleteCounts(ucp[<<u, card_id>>]) IN
            /\ counts => Agg(u) < MaxCount
            /\ progress' = [progress EXCEPT ![u] =
                   CompleteProgress(u, ProgSeen(u), Cardinality(PublicCards), counts)]
            /\ ucp' = IF counts
                      THEN [ucp EXCEPT ![<<u, card_id>>] = UserCardProgress(TRUE)]
                      ELSE ucp
            /\ last' = Last("complete_card_web", u, card_id, 303, TRUE,
                            Agg(u), Completed(u, card_id))

\* ---- mark incomplete: POST /progress/reset/{card_id}/web
\* mutant: reset_card_web without its access check
ResetAccessOpen(u, card_id) == TRUE

\* the access check of reset_card_web for a resolved user and a present card
ResetAccess(u, card_id) ==
    \/ users[u].is_admin
    \/ cards[card_id].owner_id = u
    \/ /\ users[cards[card_id].owner_id] # NoRow
       /\ users[cards[card_id].owner_id].is_admin
       /\ cards[card_id].is_public

ResetDecrement(n) == IF n > 0 THEN n - 1 ELSE n

ResetChecks(u, card_id) ==
    IF u = 0 THEN 401
    ELSE IF cards[card_id] = NoRow THEN 404
    ELSE IF ~ResetAccess(u, card_id) THEN 403
    ELSE IF ~Completed(u, card_id) THEN 404
    ELSE 200

\* mutant: reset_card_web selecting the per-pair rows by card alone
reset_card_web_unscoped(cookie, card_id) ==
    LET u == progress_get_user_from_cookie(cookie)
        st == ResetChecks(u, card_id)
    IN
    /\ UNCHANGED <<users, cards, tokens, reqs, now, jwts>>
    /\ IF st # 200
       THEN /\ UNCHANGED <<progress, ucp>>
            /\ last' = Plain("reset_card_web", u, card_id, st, FALSE)
       ELSE /\ ucp' = [p \in UserIds \X CardIds |->
                          IF p[2] = card_id /\ ucp[p] # NoRow
                          THEN UserCardProgress(FALSE) ELSE ucp[p]]
            /\ progress' = IF progress[u] = <<>> THEN progress
                           ELSE [progress EXCEPT ![u][1].completed_cards =
                                    ResetDecrement(@)]
            /\ last' = Last("reset_card_web", u, card_id, 303, TRUE,
                            Agg(u), Completed(u, card_id))

reset_card_web(cookie, card_id) ==
    LET u == progress_get_user_from_cookie(cookie)
        st == ResetChecks(u, card_id)
    IN
    /\ UNCHANGED <<users, cards, tokens, reqs, now, jwts>>
    /\ IF st # 200
       THEN /\ UNCHANGED <<progress, ucp>>
            /\ last' = Plain("reset_card_web", u, card_id, st, FALSE)
       ELSE IF Len(progress[u]) > 1
       THEN /\ UNCHANGED <<progress, ucp>>
            /\ last' = Last("reset_card_web", u, card_id, 500, FALSE,
                            Agg(u), Completed(u, card_id))
       ELSE /\ ucp' = [ucp EXCEPT ![<<u, card_id>>] = UserCardProgress(FALSE)]
            /\ progress' = IF progress[u] = <<>> THEN progress
                           ELSE [progress EXCEPT ![u][1].completed_cards =
                                    ResetDecrement(@)]
            /\ last' = Last("reset_card_web", u, card_id, 303, TRUE,
                            Agg(u), Completed(u, card_id))

\* ---- POST /learn/{card_id} and POST /unlearn/{card_id}
\* the checks of learn_card and unlearn_card; 303 is the silent redirect
LearnChecks(u, card_id) ==
    IF u = 0 THEN 303
    ELSE IF users[u].is_admin THEN 303
    ELSE IF cards[card_id] = NoRow THEN 404
    ELSE IF ~cards[card_id].is_public THEN 403
    ELSE 200

\* second commit of learn_card: the aggregate is raised, or created as 1 of 1
LearnProgress(rows, prog_seen) ==
    IF prog_seen = NoRow THEN Append(rows, Progress(1, 1, 0))
    ELSE [rows EXCEPT ![1].completed_cards = prog_seen.completed_cards + 1]

learn_card(cookie, card_id) ==
    LET u == get_user_from_cookie(cookie)
        st == LearnChecks(u, card_id)
    IN
    /\ UNCHANGED <<users, cards, tokens, reqs, now, jwts>>
    /\ IF st # 200
       THEN /\ UNCHANGED <<progress, ucp>>
            /\ last' = Plain("learn_card", u, card_id, st, FALSE)
       ELSE /\ ucp' = [ucp EXCEPT ![<<u, card_id>>] = UserCardProgress(TRUE)]
            /\ IF Len(progress[u]) > 1
               THEN /\ UNCHANGED progress
                    /\ last' = Last("learn_card", u, card_id, 500, FALSE,
                                    Agg(u), Completed(u, card_id))
               ELSE /\ Agg(u) < MaxCount
                    /\ progress' = [progress EXCEPT ![u] = LearnProgress(@, ProgSeen(u))]
                    /\ last' = Last("learn_card", u, card_id, 303, TRUE,
                                    Agg(u), Completed(u, card_id))

\* mutant: unlearn_card decrementing without the "> 0" test
UnlearnDecrementUnguarded(n) == n - 1

UnlearnDecrement(n) == IF n > 0 THEN n - 1 ELSE n

unlearn_card(cookie, card_id) ==
    LET u == get_user_from_cookie(cookie)
        st == LearnChecks(u, card_id)
    IN
    /\ UNCHANGED <<users, cards, tokens, reqs, now, jwts>>
    /\ IF st # 200
       THEN /\ UNCHANGED <<progress, ucp>>
            /\ last' = Plain("unlearn_card", u, card_id, st, FALSE)
       ELSE /\ ucp' = IF ucp[<<u, card_id>>] = NoRow THEN ucp
                      ELSE [ucp EXCEPT ![<<u, card_id>>] = UserCardProgress(FALSE)]
            /\ IF Len(progress[u]) > 1
               THEN /\ UNCHANGED progress
                    /\ last' = Last("unlearn_card", u, card_id, 500, FALSE,
                                    Agg(u), Completed(u, card_id))
               ELSE IF progress[u] = <<>>
               THEN /\ UNCHANGED progress
                    /\ last' = Last("unlearn_card", u, card_id, 404, FALSE,
                                    Agg(u), Completed(u, card_id))
               ELSE /\ progress' = [progress EXCEPT ![u][1].completed_cards =
                                       UnlearnDecrement(@)]
                    /\ last' = Last("unlearn_card", u, card_id, 303, TRUE,
                                    Agg(u), Completed(u, card_id))

\* ------------------------------------------- requests served one by one
Next ==
    \/ \E n \in Names, p \in Passwords : register(n, p)
    \/ \E n \in Names, p \in Passwords \cup {"wrong"} : login(n, p)
    \/ \E n \in Names, p \in Passwords \cup {"wrong"} : login_web(n, p)
    \/ init_models
    \/ \E n \in Names : dev_make_admin(n)
    \/ \E k \in Cookies : create_card_web(k)
    \/ \E k \in Cookies, c \in CardIds : delete_card_web(k, c)
    \/ \E k \in Cookies, t \in UserIds : toggle_user_active(k, t)
    \/ \E k \in Cookies, t \in UserIds : toggle_user_admin(k, t)
    \/ \E k \in Cookies, t \in UserIds : delete_user_admin(k, t)
    \/ \E b \in BearerTokens, t \in UserIds : delete_user(b, t)
    \/ \E b \in BearerTokens, c \in CountFields, m \in MarkedFields :
          create_progress(b, c, m)
    \/ \E b \in BearerTokens, t \in TotalFields, c \in CountFields, m \in MarkedFields :
          update_my_progress(b, t, c, m)
    \/ \E k \in Cookies : dashboard(k)
    \/ \E k \in Cookies, c \in CardIds : complete_card_web(k, c)
    \/ \E k \in Cookies, c \in CardIds : reset_card_web(k, c)
    \/ \E k \in Cookies, c \in CardIds : learn_card(k, c)
    \/ \E k \in Cookies, c \in CardIds : unlearn_card(k, c)

Spec == Init /\ [][Next]_vars

\* the requests of the progress ledger, with the accounts and cards they need
NextLedger ==
    \/ \E n \in Names, p \in Passwords : register(n, p)
    \/ \E n \in Names, p \in Passwords \cup {"wrong"} : login(n, p)
    \/ init_models
    \/ \E k \in Cookies : create_card_web(k)
    \/ \E k \in Cookies, c \in CardIds : delete_card_web(k, c)
    \/ \E b \in BearerTokens, c \in CountFields, m \in MarkedFields :
          create_progress(b, c, m)
    \/ \E b \in BearerTokens, t \in TotalFields, c \in CountFields, m \in MarkedFields :
          update_my_progress(b, t, c, m)
    \/ \E k \in Cookies : dashboard(k)
    \/ \E k \in Cookies, c \in CardIds : complete_card_web(k, c)
    \/ \E k \in Cookies, c \in CardIds : reset_card_web(k, c)
    \/ \E k \in Cookies, c \in CardIds : learn_card(k, c)
    \/ \E k \in Cookies, c \in CardIds : unlearn_card(k, c)

SpecLedger == Init /\ [][NextLedger]_vars

\* the study requests alone: no direct write of the aggregate
NextStudy ==
    \/ \E n \in Names, p \in Passwords : register(n, p)
    \/ \E n \in Names, p \in Passwords : login(n, p)
    \/ init_models
    \/ \E k \in Cookies : create_card_web(k)
    \/ \E k \in Cookies, c \in CardIds : delete_card_web(k, c)
    \/ \E k \in Cookies : dashboard(k)
    \/ \E k \in Cookies, c \in CardIds : complete_card_web(k, c)
    \/ \E k \in Cookies, c \in CardIds : reset_card_web(k, c)
    \/ \E k \in Cookies, c \in CardIds : learn_card(k, c)
    \/ \E k \in Cookies, c \in CardIds : unlearn_card(k, c)

SpecStudy == Init /\ [][NextStudy]_vars

\* the requests of user management, with one study request to own rows
NextAdmin ==
    \/ \E n \in Names, p \in Passwords : register(n, p)
    \/ \E n \in Names, p \in Passwords \cup {"wrong"} : login(n, p)
    \/ \E n \in Names : dev_make_admin(n)
    \/ init_models
    \/ \E k \in Cookies : create_card_web(k)
    \/ \E k \in Cookies, t \in UserIds : toggle_user_active(k, t)
    \/ \E k \in Cookies, t \in UserIds : toggle_user_admin(k, t)
    \/ \E k \in Cookies, t \in UserIds : delete_user_admin(k, t)
    \/ \E b \in BearerTokens, t \in UserIds : delete_user(b, t)
    \/ \E k \in Cookies, c \in CardIds : complete_card_web(k, c)

SpecAdmin == Init /\ [][NextAdmin]_vars

\* ------------------------------------------------- concurrent requests
\* A request in flight holds what its session has read; every step is one
\* round trip to the store.  A finished request stays in its slot as "done"
\* until its response is taken (retire).
Flight(op, pc, u, card_id, prog_seen, total, ucp_seen, before, was) ==
    [op |-> op, pc |-> pc, u |-> u, card |-> card_id, prog_seen |-> prog_seen,
     total |-> total, ucp_seen |-> ucp_seen, before |-> before, was |-> was,
     status |-> 0]

Finish(r, st) == [r EXCEPT !.pc = "done", !.status = st]

InFlight(s) == reqs[s].pc \notin {"idle", "done"}

Quiet == \A s \in Slots : reqs[s] = Idle

\* ---- complete_card_web, step by step
cw_begin(s, cookie, card_id) ==
    LET u == progress_get_user_from_cookie(cookie)
        st == CompleteChecks(u, card_id)
    IN
    /\ reqs[s] = Idle
    /\ UNCHANGED <<users, cards, progress, ucp, tokens, now, jwts>>
    /\ IF st # 200
       THEN /\ UNCHANGED reqs
            /\ last' = Plain("complete_card_web", u, card_id, st, FALSE)
       ELSE /\ reqs' = [reqs EXCEPT ![s] =
                   Flight("complete_card_web", "read_prog", u, card_id,
                          NoRow, 0, NoRow, Agg(u), Completed(u, card_id))]
            /\ UNCHANGED last

cw_read_prog(s) ==
    /\ reqs[s].pc = "read_prog" /\ reqs[s].op = "complete_card_web"
    /\ UNCHANGED <<users, cards, progress, ucp, tokens, last, now, jwts>>
    /\ reqs' = [reqs EXCEPT ![s] =
           IF Len(progress[@.u]) > 1 THEN Finish(@, 500)
           ELSE [@ EXCEPT !.pc = "read_ucp",
                          !.prog_seen = ProgSeen(reqs[s].u),
                          !.total = Cardinality(PublicCards)]]

cw_read_ucp(s) ==
    /\ reqs[s].pc = "read_ucp"
    /\ UNCHANGED <<users, cards, progress, ucp, tokens, last, now, jwts>>
    /\ reqs' = [reqs EXCEPT ![s] =
           [@ EXCEPT !.pc = "commit",
                      !.ucp_seen = ucp[<<reqs[s].u, reqs[s].card>>]]]

\* an INSERT of a pair another session inserted meanwhile breaks
\* unique_user_card: the commit raises and the transaction is rolled back
InsertConflict(r) == r.ucp_seen = NoRow /\ ucp[<<r.u, r.card>>] # NoRow

cw_commit(s) ==
    LET r == reqs[s]
        counts == CompleteCounts(r.ucp_seen)
    IN
    /\ r.pc = "commit"
    /\ UNCHANGED <<users, cards, tokens, last, now, jwts>>
    /\ IF InsertConflict(r)
       THEN /\ UNCHANGED <<progress, ucp>>
            /\ reqs' = [reqs EXCEPT ![s] = Finish(r, 500)]
       ELSE /\ counts /\ r.prog_seen # NoRow
                => r.prog_seen.completed_cards < MaxCount
            /\ progress' = [progress EXCEPT ![r.u] =
                   CompleteProgress(r.u, r.prog_seen, r.total, counts)]
            /\ ucp' = IF counts
                      THEN [ucp EXCEPT ![<<r.u, r.card>>] = UserCardProgress(TRUE)]
                      ELSE ucp
            /\ reqs' = [reqs EXCEPT ![s] = Finish(r, 303)]

\* ---- learn_card, step by step: two commits
lc_begin(s, cookie, card_id) ==
    LET u == get_user_from_cookie(cookie)
        st == LearnChecks(u, card_id)
    IN
    /\ reqs[s] = Idle
    /\ UNCHANGED <<users, cards, progress, ucp, tokens, now, jwts>>
    /\ IF st # 200
       THEN /\ UNCHANGED reqs
            /\ last' = Plain("learn_card", u, card_id, st, FALSE)
       ELSE /\ reqs' = [reqs EXCEPT ![s] =
                   Flight("learn_card", "commit_ucp", u, card_id,
                          NoRow, 0, ucp[<<u, card_id>>], Agg(u),
                          Completed(u, card_id))]
            /\ UNCHANGED last

lc_commit_ucp(s) ==
    LET r == reqs[s] IN
    /\ r.pc = "commit_ucp"
    /\ UNCHANGED <<users, cards, progress, tokens, last, now, jwts>>
    /\ IF InsertConflict(r)
       THEN /\ UNCHANGED ucp
            /\ reqs' = [reqs EXCEPT ![s] = Finish(r, 500)]
       ELSE /\ ucp' = [ucp EXCEPT ![<<r.u, r.card>>] = UserCardProgress(TRUE)]
            /\ reqs' = [reqs EXCEPT ![s].pc = "read_prog"]

lc_read_prog(s) ==
    /\ reqs[s].pc = "read_prog" /\ reqs[s].op = "learn_card"
    /\ UNCHANGED <<users, cards, progress, ucp, tokens, last, now, jwts>>
    /\ reqs' = [reqs EXCEPT ![s] =
           IF Len(progress[@.u]) > 1 THEN Finish(@, 500)
           ELSE [@ EXCEPT !.pc = "commit_prog",
                          !.prog_seen = ProgSeen(reqs[s].u)]]

lc_commit_prog(s) ==
    LET r == reqs[s] IN
    /\ r.pc = "commit_prog"
    /\ r.prog_seen # NoRow => r.prog_seen.completed_cards < MaxCount
    /\ UNCHANGED <<users, cards, ucp, tokens, last, now, jwts>>
    /\ progress' = [progress EXCEPT ![r.u] = LearnProgress(@, r.prog_seen)]
    /\ reqs' = [reqs EXCEPT ![s] = Finish(r, 303)]

\* the worker dies or the connection drops: what was committed stays
crash(s) ==
    /\ InFlight(s)
    /\ UNCHANGED <<users, cards, progress, ucp, tokens, last, now, jwts>>
    /\ reqs' = [reqs EXCEPT ![s] = Finish(@, 0)]

retire(s) ==
    /\ reqs[s].pc = "done"
    /\ UNCHANGED <<users, cards, progress, ucp, tokens, last, now, jwts>>
    /\ reqs' = [reqs EXCEPT ![s] = Idle]

NextConc ==
    \/ Quiet /\ \E n \in Names, p \in Passwords : register(n, p)
    \/ Quiet /\ \E n \in Names, p \in Passwords : login(n, p)
    \/ Quiet /\ init_models
    \/ Quiet /\ \E k \in Cookies : create_card_web(k)
    \/ Quiet /\ \E k \in Cookies, c \in CardIds : reset_card_web(k, c)
    \/ \E s \in Slots, k \in Cookies, c \in CardIds : cw_begin(s, k, c)
    \/ \E s \in Slots : cw_read_prog(s)
    \/ \E s \in Slots : cw_read_ucp(s)
    \/ \E s \in Slots : cw_commit(s)
    \/ \E s \in Slots, k \in Cookies, c \in CardIds : lc_begin(s, k, c)
    \/ \E s \in Slots : lc_commit_ucp(s)
    \/ \E s \in Slots : lc_read_prog(s)
    \/ \E s \in Slots : lc_commit_prog(s)
    \/ \E s \in Slots : crash(s)
    \/ \E s \in Slots : retire(s)

SpecConc == Init /\ [][NextConc]_vars

\* the requests on a user's own Progress row; the row is created with the
\* defaults, every field of an update is drawn from the inputs
MarkedInputs == {Unset} \cup {Field(v) : v \in CountInputs}

NextProfile ==
    \/ \E n \in Names, p \in Passwords : register(n, p)
    \/ \E n \in Names, p \in Passwords : login(n, p)
    \/ init_models
    \/ \E k \in Cookies : create_card_web(k)
    \/ \E b \in BearerTokens : create_progress(b, Unset, Unset)
    \/ \E k \in Cookies : dashboard(k)
    \/ \E b \in BearerTokens, t \in TotalFields, c \in CountFields, m \in MarkedInputs :
          update_my_progress(b, t, c, m)

SpecProfile == Init /\ [][NextProfile]_vars

\* ---- register, step by step: the SELECT, then the INSERT and its commit
RegisterFlight(name, password) ==
    [op |-> "register", pc |-> "insert", name |-> name, password |-> password,
     status |-> 0]

rg_begin(s, name, password) ==
    /\ reqs[s] = Idle
    /\ UNCHANGED <<users, cards, progress, ucp, tokens, now, jwts>>
    /\ IF UserByName(name) # {}
       THEN /\ reqs' = [reqs EXCEPT ![s] = Finish(RegisterFlight(name, password), 400)]
            /\ last' = Plain("register", 0, 0, 400, FALSE)
       ELSE /\ reqs' = [reqs EXCEPT ![s] = RegisterFlight(name, password)]
            /\ UNCHANGED last

\* users.username is unique: the INSERT of a name another session inserted
\* meanwhile raises IntegrityError, which the handler does not catch
rg_commit(s) ==
    LET r == reqs[s] IN
    /\ r.pc = "insert"
    /\ UNCHANGED <<cards, progress, ucp, tokens, now, jwts>>
    /\ IF UserByName(r.name) # {}
       THEN /\ UNCHANGED users
            /\ reqs' = [reqs EXCEPT ![s] = Finish(r, 500)]
            /\ last' = Plain("register", 0, 0, 500, FALSE)
       ELSE /\ NextId(users) <= MaxUsers
            /\ users' = [users EXCEPT
                   ![NextId(users)] = User(r.name, get_password_hash(r.password))]
            /\ reqs' = [reqs EXCEPT ![s] = Finish(r, 201)]
            /\ last' = Plain("register", 0, NextId(users), 201, TRUE)

\* concurrent registrations, with the requests that free a username again
NextSignup ==
    \/ \E s \in Slots, n \in Names, p \in Passwords : rg_begin(s, n, p)
    \/ \E s \in Slots : rg_commit(s)
    \/ \E s \in Slots : retire(s)
    \/ Quiet /\ \E n \in Names, p \in Passwords : login(n, p)
    \/ Quiet /\ init_models
    \/ Quiet /\ \E k \in Cookies, t \in UserIds : delete_user_admin(k, t)

SpecSignup == Init /\ [][NextSignup]_vars

\* the two login forms, with the requests that change what they read
NextLogin ==
    \/ \E n \in Names, p \in Passwords : register(n, p)
    \/ \E n \in Names, p \in Passwords \cup {"wrong"} : login(n, p)
    \/ \E n \in Names, p \in Passwords \cup {"wrong"} : login_web(n, p)
    \/ init_models
    \/ \E k \in Cookies, t \in UserIds : toggle_user_active(k, t)
    \/ \E k \in Cookies, t \in UserIds : delete_user_admin(k, t)

SpecLogin == Init /\ [][NextLogin]_vars

\* ---- user management, step by step: the dependency resolves the caller
\* and the handler compares ids (begin); the handler then selects the target,
\* writes and commits (write).  Other requests run between the two.
AdminFlight(op, u, user_id) ==
    [op |-> op, pc |-> "write", u |-> u, target |-> user_id, status |-> 0]

admin_begin(s, op, g, self, self_status, user_id) ==
    /\ reqs[s] = Idle
    /\ UNCHANGED <<users, cards, progress, ucp, tokens, now, jwts>>
    /\ IF g.st # 200
       THEN /\ UNCHANGED reqs
            /\ last' = Plain(op, 0, user_id, g.st, FALSE)
       ELSE IF self
       THEN /\ UNCHANGED reqs
            /\ last' = Plain(op, g.u, user_id, self_status, FALSE)
       ELSE /\ reqs' = [reqs EXCEPT ![s] = AdminFlight(op, g.u, user_id)]
            /\ UNCHANGED last

toggle_user_active_begin(s, cookie, user_id) ==
    LET g == require_admin_cookie(cookie) IN
    admin_begin(s, "toggle_user_active", g,
                toggle_user_active_self(user_id, g.u), 303, user_id)

toggle_user_admin_begin(s, cookie, user_id) ==
    LET g == require_admin_cookie(cookie) IN
    admin_begin(s, "toggle_user_admin", g,
                toggle_user_admin_self(user_id, g.u), 303, user_id)

delete_user_admin_begin(s, cookie, user_id) ==
    LET g == require_admin_cookie(cookie) IN
    admin_begin(s, "delete_user_admin", g,
                delete_user_admin_self(user_id, g.u), 303, user_id)

delete_user_begin(s, tok, user_id) ==
    LET g == require_admin(tok) IN
    admin_begin(s, "delete_user", g, delete_user_self(user_id, g.u), 400, user_id)

\* the select of the target, the write and the commit of the four handlers
admin_write(s) ==
    LET r == reqs[s]
        t == r.target
    IN
    /\ r.pc = "write"
    /\ r.op \in {"toggle_user_active", "toggle_user_admin",
                 "delete_user_admin", "delete_user"}
    /\ UNCHANGED <<cards, tokens, now, jwts>>
    /\ IF users[t] = NoRow
       THEN /\ UNCHANGED <<users, progress, ucp>>
            /\ reqs' = [reqs EXCEPT ![s] = Finish(r, 404)]
            /\ last' = Plain(r.op, r.u, t, 404, FALSE)
       ELSE LET st == IF r.op = "delete_user" THEN 204 ELSE 303 IN
            /\ reqs' = [reqs EXCEPT ![s] = Finish(r, st)]
            /\ last' = Plain(r.op, r.u, t, st, TRUE)
            /\ users' = CASE r.op = "toggle_user_active" ->
                               [users EXCEPT ![t].is_active = ~users[t].is_active]
                          [] r.op = "toggle_user_admin" ->
                               [users EXCEPT ![t].is_admin = ~users[t].is_admin]
                          [] OTHER -> [users EXCEPT ![t] = NoRow]
            /\ IF r.op = "delete_user_admin"
               THEN /\ progress' = [progress EXCEPT ![t] = <<>>]
                    /\ ucp' = [p \in UserIds \X CardIds |->
                                  IF p[1] = t THEN NoRow ELSE ucp[p]]
               ELSE UNCHANGED <<progress, ucp>>

\* concurrent user management
NextRace ==
    \/ Quiet /\ \E n \in Names, p \in Passwords : register(n, p)
    \/ Quiet /\ \E n \in Names, p \in Passwords : login(n, p)
    \/ Quiet /\ init_models
    \/ \E s \in Slots, k \in Cookies, t \in UserIds : toggle_user_active_begin(s, k, t)
    \/ \E s \in Slots, k \in Cookies, t \in UserIds : toggle_user_admin_begin(s, k, t)
    \/ \E s \in Slots, k \in Cookies, t \in UserIds : delete_user_admin_begin(s, k, t)
    \/ \E s \in Slots, k \in BearerTokens, t \in UserIds : delete_user_begin(s, k, t)
    \/ \E s \in Slots : admin_write(s)
    \/ \E s \in Slots : retire(s)

SpecRace == Init /\ [][NextRace]_vars

\* ---- create_progress, step by step: the select of the existing row and
\* the count of public cards (begin), then the insert and commit
ProgressFlight(u, total, completed, marked) ==
    [op |-> "create_progress", pc |-> "insert", u |-> u, total |-> total,
     completed |-> completed, marked |-> marked, status |-> 0]

create_progress_begin(s, tok, completed, marked) ==
    LET g == get_current_active_user(tok) IN
    /\ reqs[s] = Idle
    /\ UNCHANGED <<users, cards, progress, ucp, tokens, now, jwts>>
    /\ IF g.st # 200
       THEN /\ UNCHANGED reqs
            /\ last' = Plain("create_progress", 0, 0, g.st, FALSE)
       ELSE IF Len(progress[g.u]) > 1
       THEN /\ UNCHANGED reqs
            /\ last' = Plain("create_progress", g.u, 0, 500, FALSE)
       ELSE IF Len(progress[g.u]) = 1
       THEN /\ UNCHANGED reqs
            /\ last' = Plain("create_progress", g.u, 0, 409, FALSE)
       ELSE /\ reqs' = [reqs EXCEPT ![s] =
                   ProgressFlight(g.u, Cardinality(PublicCards), completed.v, marked.v)]
            /\ UNCHANGED last

\* progress has no unique constraint on user_id: the insert always succeeds
create_progress_commit(s) ==
    LET r == reqs[s] IN
    /\ r.pc = "insert" /\ r.op = "create_progress"
    /\ UNCHANGED <<users, cards, ucp, tokens, now, jwts>>
    /\ progress' = [progress EXCEPT ![r.u] =
           Append(@, Progress(r.total, r.completed, r.marked))]
    /\ reqs' = [reqs EXCEPT ![s] = Finish(r, 201)]
    /\ last' = Plain("create_progress", r.u, 0, 201, TRUE)

\* explicit creation of the progress row, one request at a time and
\* concurrently
NextCreate ==
    \/ Quiet /\ \E n \in Names, p \in Passwords : register(n, p)
    \/ Quiet /\ \E n \in Names, p \in Passwords : login(n, p)
    \/ Quiet /\ init_models
    \/ Quiet /\ \E k \in Cookies : create_card_web(k)
    \/ Quiet /\ \E b \in BearerTokens, c \in CountFields, m \in MarkedFields :
          create_progress(b, c, m)
    \/ \E s \in Slots, b \in BearerTokens, c \in CountFields, m \in MarkedFields :
          create_progress_begin(s, b, c, m)
    \/ \E s \in Slots : create_progress_commit(s)
    \/ \E s \in Slots : retire(s)

SpecCreate == Init /\ [][NextCreate]_vars

\* the six requests that write a user's own progress, with the requests
\* that let both users study
NextFrame ==
    \/ \E n \in Names, p \in Passwords : register(n, p)
    \/ \E n \in Names, p \in Passwords : login(n, p)
    \/ init_models
    \/ \E n \in Names : dev_make_admin(n)
    \/ \E k \in Cookies, t \in UserIds : toggle_user_admin(k, t)
    \/ \E k \in Cookies : create_card_web(k)
    \/ \E b \in BearerTokens, c \in CountFields : create_progress(b, c, Unset)
    \/ \E b \in BearerTokens, c \in CountFields : update_my_progress(b, Unset, c, Unset)
    \/ \E k \in Cookies, c \in CardIds : complete_card_web(k, c)
    \/ \E k \in Cookies, c \in CardIds : reset_card_web(k, c)
    \/ \E k \in Cookies, c \in CardIds : learn_card(k, c)
    \/ \E k \in Cookies, c \in CardIds : unlearn_card(k, c)

SpecFrame == Init /\ [][NextFrame]_vars

\* resets of card progress, with the requests that change who owns a card
\* and whether its owner is an admin
NextReset ==
    \/ Quiet /\ \E n \in Names, p \in Passwords : register(n, p)
    \/ Quiet /\ \E n \in Names, p \in Passwords : login_web(n, p)
    \/ Quiet /\ init_models
    \/ Quiet /\ \E k \in Cookies : create_card_web(k)
    \/ \E s \in Slots, k \in Cookies, t \in UserIds : toggle_user_admin_begin(s, k, t)
    \/ \E s \in Slots : admin_write(s)
    \/ \E s \in Slots : retire(s)
    \/ Quiet /\ \E k \in Cookies, c \in CardIds : complete_card_web(k, c)
    \/ Quiet /\ \E k \in Cookies, c \in CardIds : reset_card_web(k, c)

SpecReset == Init /\ [][NextReset]_vars

\* ------------------------------------------- the cookie as the client sends it
\* the value of the access_token cookie: absent, or a string that is not a
\* token, a token with a wrong signature, an expired one, or a token that
\* decodes; with or without the "Bearer " prefix; the "sub" claim is
\* missing, a text that is no number, or the decimal id of a user
SubjectClaims ==
    {[shape |-> "missing", id |-> NoToken], [shape |-> "text", id |-> NoToken]}
    \cup {[shape |-> "number", id |-> i] : i \in UserIds}

AbsentCookie ==
    [kind |-> "absent", bearer |-> FALSE, sub |-> [shape |-> "missing", id |-> NoToken]]

CookieValues ==
    {AbsentCookie} \cup
    [kind : {"malformed", "badsig", "expired", "signed"}, bearer : BOOLEAN,
     sub : SubjectClaims]

\* outcome of a resolver: it raised, or it returned user u (0 for None)
Returned(u) == [raised |-> FALSE, u |-> u]
Raised == [raised |-> TRUE, u |-> 0]

\* app.auth.get_user_from_cookie on the cookie value: only JWTError is caught,
\* int(user_id) on a text subject raises ValueError
auth_cookie_resolver(v) ==
    IF v.kind = "absent" THEN Returned(0)
    ELSE IF v.bearer \/ v.kind # "signed" THEN Returned(0)
    ELSE IF v.sub.shape = "missing" THEN Returned(0)
    ELSE IF v.sub.shape = "text" THEN Raised
    ELSE Returned(get_user_from_cookie([bearer |-> FALSE, sub |-> v.sub.id]))

\* app.api.progress.get_user_from_cookie on the cookie value: JWTError,
\* ValueError and TypeError are caught
progress_cookie_resolver(v) ==
    IF v.kind = "absent" \/ ~v.bearer THEN Returned(0)
    ELSE IF v.kind # "signed" THEN Returned(0)
    ELSE IF v.sub.shape = "missing" THEN Returned(0)
    ELSE IF v.sub.shape = "text" THEN Returned(0)
    ELSE Returned(progress_get_user_from_cookie([bearer |-> TRUE, sub |-> v.sub.id]))

\* the cookie as the handlers above take it, once its value has decoded
Decoded(v) ==
    IF v.kind = "signed" /\ v.sub.shape = "number"
    THEN [bearer |-> v.bearer, sub |-> v.sub.id]
    ELSE [bearer |-> v.bearer, sub |-> NoToken]

\* GET /dashboard with cookie value v: an exception of the resolver is an
\* unhandled error of the request (500)
dashboard_request(v) ==
    IF auth_cookie_resolver(v).raised
    THEN /\ UNCHANGED <<users, cards, progress, ucp, tokens, reqs, now, jwts>>
         /\ last' = Plain("dashboard", 0, 0, 500, FALSE)
    ELSE dashboard(Decoded(v))

\* POST /progress/complete/{card_id}/web with cookie value v
complete_card_web_request(v, card_id) ==
    IF progress_cookie_resolver(v).raised
    THEN /\ UNCHANGED <<users, cards, progress, ucp, tokens, reqs, now, jwts>>
         /\ last' = Plain("complete_card_web", 0, card_id, 500, FALSE)
    ELSE complete_card_web(Decoded(v), card_id)

NextCookie ==
    \/ \E n \in Names, p \in Passwords : register(n, p)
    \/ \E n \in Names, p \in Passwords : login_web(n, p)
    \/ init_models
    \/ \E k \in Cookies : create_card_web(k)
    \/ \E k \in Cookies, t \in UserIds : toggle_user_active(k, t)
    \/ \E k \in Cookies, t \in UserIds : delete_user_admin(k, t)
    \/ \E v \in CookieValues : dashboard_request(v)
    \/ \E v \in CookieValues, c \in CardIds : complete_card_web_request(v, c)

SpecCookie == Init /\ [][NextCookie]_vars

\* ------------------------------------------------- requests under the clock
\* a minute passes
tick ==
    /\ now < MaxTime
    /\ now' = now + 1
    /\ UNCHANGED <<users, cards, progress, ucp, tokens, reqs, jwts, last>>

\* what a client holding the issued tokens can present at the current time
TimedBearers == {NoToken} \cup {jwt_decode(t) : t \in jwts}
TimedCookies == {NoCookie} \cup
                {[bearer |-> b, sub |-> jwt_decode(t)] : b \in BOOLEAN, t \in jwts}

\* a call of create_access_token, with or without expires_delta
issue_token(sub, expires_delta) ==
    /\ jwts' = jwts \cup {create_access_token(sub, expires_delta)}
    /\ Cardinality(jwts') <= MaxTokens
    /\ last' = Plain("create_access_token", sub, expires_delta, 0, TRUE)
    /\ UNCHANGED <<users, cards, progress, ucp, tokens, reqs, now>>

\* a token is presented: jwt.decode accepts it or rejects it as expired
decode_token(t) ==
    /\ last' = Plain("jwt_decode", jwt_decode(t), t.exp, 0, jwt_decode(t) # NoToken)
    /\ UNCHANGED <<users, cards, progress, ucp, tokens, reqs, now, jwts>>

\* token issuance under the clock
NextToken ==
    \/ \E u \in UserIds, d \in {NoDelta, TokenMinutes} : issue_token(u, d)
    \/ \E t \in jwts : decode_token(t)
    \/ tick

SpecToken == Init /\ [][NextToken]_vars

NextClock ==
    \/ \E n \in Names, p \in Passwords : register(n, p)
    \/ \E n \in Names, p \in Passwords :
          login(n, p) /\ Cardinality(jwts') <= MaxTokens
    \/ init_models
    \/ tick
    \/ \E k \in TimedCookies : create_card_web(k)
    \/ \E b \in TimedBearers, c \in CountFields, m \in MarkedFields :
          create_progress(b, c, m)
    \/ \E k \in TimedCookies : dashboard(k)
    \/ \E k \in TimedCookies, c \in CardIds : complete_card_web(k, c)

SpecClock == Init /\ [][NextClock]_vars

\* ================================================================ claims
CompleteOps == {"complete_card_web", "learn_card"}
IncompleteOps == {"reset_card_web", "unlearn_card"}

\* the public cards user u has completed
CompletedCards(u) == {c \in PublicCards : Completed(u, c)}

ProgressRows(u) == {progress[u][i] : i \in 1..Len(progress[u])}

\* C1: for every user with a Progress row, completed_cards equals the number
\* of the user's completed per-pair rows whose card exists and is public.
C1_AggregateEqualsCompletedRows ==
    \A u \in UserIds : \A row \in ProgressRows(u) :
        row.completed_cards = Cardinality(CompletedCards(u))

\* C2: two successive mark-complete requests for the same (user, card), the
\* pair not completed before the first, raise completed_cards by exactly 1.
C2_MarkCompleteIdempotent ==
    [][(/\ last.ok /\ last.op \in CompleteOps /\ ~last.was
        /\ last'.ok /\ last'.op \in CompleteOps
        /\ last'.user = last.user /\ last'.arg = last.arg)
       => Agg(last.user)' = last.before + 1]_vars

\* C3: mark-complete followed by mark-incomplete on the same pair, the pair
\* not completed before, returns completed_cards to its value before the two
\* calls and leaves the pair not completed with completed_at cleared.
C3_CompleteThenIncomplete ==
    [][(/\ last.ok /\ last.op \in CompleteOps /\ ~last.was
        /\ last'.ok /\ last'.op \in IncompleteOps
        /\ last'.user = last.user /\ last'.arg = last.arg)
       => /\ Agg(last.user)' = last.before
          /\ ucp'[<<last.user, last.arg>>] = UserCardProgress(FALSE)]_vars

\* C4: every Progress row satisfies 0 <= completed_cards <= total_cards.
C4_CompletedWithinTotal ==
    \A u \in UserIds : \A row \in ProgressRows(u) :
        0 <= row.completed_cards /\ row.completed_cards <= row.total_cards

\* C5: two concurrent mark-complete requests for the same pair, both begun
\* while the pair was not completed, end with one Progress row whose
\* completed_cards is raised by exactly 1 and with the pair's row completed.
C5_ConcurrentCompleteOnce ==
    \A s1, s2 \in Slots :
        (/\ s1 # s2
         /\ reqs[s1].pc = "done" /\ reqs[s2].pc = "done"
         /\ reqs[s1].status # 0 /\ reqs[s2].status # 0
         /\ reqs[s1].u = reqs[s2].u /\ reqs[s1].card = reqs[s2].card
         /\ ~reqs[s1].was /\ ~reqs[s2].was
         /\ reqs[s1].before = reqs[s2].before)
        => /\ Len(progress[reqs[s1].u]) = 1
           /\ progress[reqs[s1].u][1].completed_cards = reqs[s1].before + 1
           /\ Completed(reqs[s1].u, reqs[s1].card)

\* C6: every commit of a mark-complete request changes the per-pair flag and
\* the aggregate together: no step of a request changes one without the other.
C6_FlagAndAggregateTogether ==
    [][reqs' # reqs =>
         \A u \in UserIds :
            ({c \in CardIds : Completed(u, c)}' # {c \in CardIds : Completed(u, c)})
            <=> (Agg(u)' # Agg(u))]_vars

\* C7: a mark-incomplete request (reset_card_web, unlearn_card) made while
\* every completed_cards is >= 0 leaves every completed_cards >= 0.
NonNegative == \A u \in UserIds : \A row \in ProgressRows(u) : row.completed_cards >= 0

C7_FloorAtZero ==
    [][(last'.op \in IncompleteOps /\ NonNegative) => NonNegative']_vars

\* C7 witness: unlearn_card ran to its end on an aggregate of 0 and left it 0
C7_Witness ==
    /\ last.op = "unlearn_card" /\ last.ok /\ last.before = 0
    /\ Agg(last.user) = 0

\* C8: after an admin deletes a user, through either delete path, no Progress
\* row and no UserCardProgress row with that user's id remains.
C8_DeleteUserCascades ==
    [][(last'.ok /\ last'.op \in {"delete_user", "delete_user_admin"})
       => /\ progress'[last'.arg] = <<>>
          /\ \A c \in CardIds : ucp'[<<last'.arg, c>>] = NoRow]_vars

\* C9: is_active and is_admin of a user change only by a request of an
\* authenticated, active admin.
FlagsChange(u) ==
    /\ users[u] # NoRow /\ users'[u] # NoRow
    /\ \/ users'[u].is_active # users[u].is_active
       \/ users'[u].is_admin # users[u].is_admin

C9_FlagsOnlyByAdmin ==
    [][(\E u \in UserIds : FlagsChange(u))
       => /\ last'.user # 0
          /\ users[last'.user] # NoRow
          /\ users[last'.user].is_admin /\ users[last'.user].is_active]_vars

\* C10: an admin's request to delete their own account or to toggle their own
\* admin flag changes nothing: the admin's row stays, with is_admin = true.
C10_SelfProtection ==
    [][(/\ last'.op \in {"delete_user", "delete_user_admin", "toggle_user_admin"}
        /\ last'.user # 0 /\ last'.arg = last'.user)
       => /\ UNCHANGED <<users, cards, progress, ucp, tokens>>
          /\ users'[last'.user] # NoRow
          /\ users'[last'.user].is_admin]_vars

\* C10 witness: an admin has just asked to toggle their own admin flag
C10_Witness ==
    /\ last.op = "toggle_user_admin" /\ last.user # 0 /\ last.arg = last.user
    /\ users[last.user] # NoRow /\ users[last.user].is_admin

\* the stored rows: every variable but the in-flight requests and the history
tables == <<users, cards, progress, ucp, tokens>>

\* an admin-only request under the cookie guard, and under the bearer guard
AdminOnlyCookie(k) ==
    \/ create_card_web(k)
    \/ \E c \in CardIds : delete_card_web(k, c)
    \/ \E t \in UserIds : toggle_user_active(k, t)
    \/ \E t \in UserIds : toggle_user_admin(k, t)
    \/ \E t \in UserIds : delete_user_admin(k, t)

AdminOnlyBearer(b) == \E t \in UserIds : delete_user(b, t)

\* sub is the subject of a valid token of a present, active, non-admin user
NonAdminSubject(sub) ==
    /\ sub # NoToken /\ users[sub] # NoRow
    /\ users[sub].is_active /\ ~users[sub].is_admin

\* C11: under both guards an admin-only request with no token is answered
\* 401, one with a valid token of an active non-admin user is answered 403,
\* and neither changes a stored row.
C11_AuthSeparation ==
    [][/\ \A k \in Cookies : AdminOnlyCookie(k) =>
             /\ k.sub = NoToken => last'.status = 401 /\ UNCHANGED tables
             /\ NonAdminSubject(k.sub) => last'.status = 403 /\ UNCHANGED tables
       /\ \A b \in BearerTokens : AdminOnlyBearer(b) =>
             /\ b = NoToken => last'.status = 401 /\ UNCHANGED tables
             /\ NonAdminSubject(b) => last'.status = 403 /\ UNCHANGED tables]_vars

\* C11 under the bearer guard alone (require_admin)
C11_BearerSeparation ==
    [][\A b \in BearerTokens : AdminOnlyBearer(b) =>
             /\ b = NoToken => last'.status = 401 /\ UNCHANGED tables
             /\ NonAdminSubject(b) => last'.status = 403 /\ UNCHANGED tables]_vars

\* no resolver finds a user for a token with subject sub, in either cookie shape
NoIdentity(sub) ==
    /\ get_current_active_user(sub).st # 200
    /\ \A bearer \in BOOLEAN :
          /\ get_user_from_cookie([bearer |-> bearer, sub |-> sub]) = 0
          /\ progress_get_user_from_cookie([bearer |-> bearer, sub |-> sub]) = 0

\* C12: a token whose user is deactivated or deleted resolves to no user in
\* every resolver; a token whose user is deleted still resolves to no user
\* after any later request; login of an inactive user issues no token.
C12_StaleTokenResolvesNobody ==
    [][/\ \A sub \in tokens :
             (users[sub] = NoRow \/ ~users[sub].is_active) => NoIdentity(sub)
       /\ \A sub \in tokens : users[sub] = NoRow => NoIdentity(sub)'
       /\ \A n \in Names, p \in Passwords :
             (login(n, p) /\ \E u \in UserByName(n) : ~users[u].is_active)
             => tokens' = tokens /\ last'.status = 401]_vars

\* C12 without the tokens of deleted users: a token whose user is absent or
\* inactive in a state resolves to no user in that state
C12_InactiveResolvesNobody ==
    \A sub \in tokens :
        (users[sub] = NoRow \/ ~users[sub].is_active) => NoIdentity(sub)

\* the user of token t is present and active
Holder(t) == users[t.sub] # NoRow /\ users[t.sub].is_active

\* C13: while the clock is before a token's expiry (issuance + 30 minutes) the
\* token resolves its user through the bearer guard and, as the cookie
\* login_web wrote, through both cookie resolvers; from one minute past the
\* expiry on it resolves no user anywhere.
C13_TokenLifetime ==
    \A t \in jwts : Holder(t) =>
        /\ now < t.exp =>
              /\ get_current_user(jwt_decode(t)) = Resolved(t.sub)
              /\ progress_get_user_from_cookie(login_web_cookie(t)) = t.sub
              /\ get_user_from_cookie(login_web_cookie(t)) = t.sub
        /\ now > t.exp =>
              /\ get_current_user(jwt_decode(t)) = Denied(401)
              /\ progress_get_user_from_cookie(login_web_cookie(t)) = 0
              /\ get_user_from_cookie(login_web_cookie(t)) = 0

\* C13 for the resolvers that read the token as it was issued: the bearer
\* guard and the cookie resolver of app/api/progress.py
C13_BearerLifetime ==
    \A t \in jwts : Holder(t) =>
        /\ now < t.exp =>
              /\ get_current_user(jwt_decode(t)) = Resolved(t.sub)
              /\ progress_get_user_from_cookie(login_web_cookie(t)) = t.sub
        /\ now > t.exp =>
              /\ get_current_user(jwt_decode(t)) = Denied(401)
              /\ progress_get_user_from_cookie(login_web_cookie(t)) = 0
              /\ get_user_from_cookie(login_web_cookie(t)) = 0

\* the failure a mark-complete request of user u for card c must end in, or
\* 200 when the request is to go through
CompleteFailure(u, c) ==
    IF users[u].is_admin THEN 403
    ELSE IF cards[c] = NoRow THEN 404
    ELSE IF ~cards[c].is_public THEN 403
    ELSE 200

\* C14: a mark-complete request of a resolved user, through either endpoint,
\* is answered 403 when the caller is an admin, 404 when the card does not
\* exist and 403 when the card is not public, and then writes no Progress row
\* and no UserCardProgress row.
C14_CompleteFailures ==
    [][\A k \in Cookies, c \in CardIds :
         /\ (/\ complete_card_web(k, c)
             /\ progress_get_user_from_cookie(k) # 0
             /\ CompleteFailure(progress_get_user_from_cookie(k), c) # 200)
            => /\ last'.status = CompleteFailure(progress_get_user_from_cookie(k), c)
               /\ UNCHANGED <<progress, ucp>>
         /\ (/\ learn_card(k, c)
             /\ get_user_from_cookie(k) # 0
             /\ CompleteFailure(get_user_from_cookie(k), c) # 200)
            => /\ last'.status = CompleteFailure(get_user_from_cookie(k), c)
               /\ UNCHANGED <<progress, ucp>>]_vars

\* C14 without the status: a mark-complete request that is to fail writes no
\* Progress row and no UserCardProgress row
C14_FailuresWriteNothing ==
    [][\A k \in Cookies, c \in CardIds :
         /\ (/\ complete_card_web(k, c)
             /\ progress_get_user_from_cookie(k) # 0
             /\ CompleteFailure(progress_get_user_from_cookie(k), c) # 200)
            => UNCHANGED <<progress, ucp>>
         /\ (/\ learn_card(k, c)
             /\ get_user_from_cookie(k) # 0
             /\ CompleteFailure(get_user_from_cookie(k), c) # 200)
            => UNCHANGED <<progress, ucp>>]_vars

\* C15 for reset_card_web: a request of a resolved user with access to an
\* existing card, the pair having no completed row, is answered 404 and
\* changes neither the aggregate nor the pair's row.
C15_ResetNotCompleted ==
    [][\A k \in Cookies, c \in CardIds :
         (/\ reset_card_web(k, c)
          /\ progress_get_user_from_cookie(k) # 0
          /\ cards[c] # NoRow
          /\ ResetAccess(progress_get_user_from_cookie(k), c)
          /\ ~Completed(progress_get_user_from_cookie(k), c))
         => /\ last'.status = 404 /\ ~last'.ok
            /\ UNCHANGED <<progress, ucp>>]_vars

\* C15: a mark-incomplete request for a pair with no completed row, through
\* reset_card_web or unlearn_card, is answered with an error (404) and
\* changes neither the aggregate nor the pair's row.
C15_IncompleteNotCompleted ==
    [][\A k \in Cookies, c \in CardIds :
         /\ (/\ reset_card_web(k, c)
             /\ progress_get_user_from_cookie(k) # 0
             /\ cards[c] # NoRow
             /\ ResetAccess(progress_get_user_from_cookie(k), c)
             /\ ~Completed(progress_get_user_from_cookie(k), c))
            => /\ last'.status = 404 /\ ~last'.ok
               /\ UNCHANGED <<progress, ucp>>
         /\ (/\ unlearn_card(k, c)
             /\ get_user_from_cookie(k) # 0
             /\ LearnChecks(get_user_from_cookie(k), c) = 200
             /\ ~Completed(get_user_from_cookie(k), c))
            => /\ last'.status = 404 /\ ~last'.ok
               /\ UNCHANGED <<progress, ucp>>]_vars

\* the row an update of the given fields produces from row
Produced(row, t, c, m) ==
    Progress(IF t.set THEN t.v ELSE row.total_cards,
             IF c.set THEN c.v ELSE row.completed_cards,
             IF m.set THEN m.v ELSE row.marked_important)

InRange(row) ==
    /\ 0 <= row.completed_cards /\ row.completed_cards <= row.total_cards
    /\ row.marked_important >= 0

\* C16: an update_my_progress request of a user with a Progress row whose
\* produced row would have completed_cards outside [0, total_cards] or a
\* negative marked_important is answered 400 and leaves the row unchanged;
\* every accepted request leaves a row within these ranges.
C16_UpdateValidated ==
    [][\A b \in BearerTokens, t \in TotalFields, c \in CountFields, m \in MarkedInputs :
         (/\ update_my_progress(b, t, c, m)
          /\ get_current_active_user(b).st = 200
          /\ Len(progress[get_current_active_user(b).u]) = 1)
         => LET u == get_current_active_user(b).u IN
            /\ ~InRange(Produced(progress[u][1], t, c, m))
                  => last'.status = 400 /\ UNCHANGED progress
            /\ last'.ok => InRange(progress'[u][1])]_vars

\* C16 for the fields the handler validates: a request that sets no
\* total_cards and sends a completed_cards outside [0, total_cards] or a
\* negative marked_important is answered 400 and leaves the row unchanged
C16_SentFieldsValidated ==
    [][\A b \in BearerTokens, c \in CountFields, m \in MarkedInputs :
         (/\ update_my_progress(b, Unset, c, m)
          /\ get_current_active_user(b).st = 200
          /\ Len(progress[get_current_active_user(b).u]) = 1)
         => LET u == get_current_active_user(b).u IN
            (\/ c.set /\ (c.v < 0 \/ c.v > progress[u][1].total_cards)
             \/ m.set /\ m.v < 0)
            => last'.status = 400 /\ UNCHANGED progress]_vars

\* C17: a request that creates the Progress row of a user who had none leaves
\* one row with total_cards equal to the number of public cards,
\* marked_important = 0, and completed_cards = 0, or 1 when the request is a
\* mark-complete that counted its card.
C17_ProgressInitialised ==
    [][\A u \in UserIds :
         (progress[u] = <<>> /\ progress'[u] # <<>>)
         => /\ Len(progress'[u]) = 1
            /\ progress'[u][1].total_cards = Cardinality(PublicCards)
            /\ progress'[u][1].marked_important = 0
            /\ progress'[u][1].completed_cards =
                  IF last'.op \in CompleteOps THEN 1 ELSE 0]_vars

\* C18: in every reachable state a user has at most one Progress row.
C18_OneProgressRowPerUser ==
    \A u \in UserIds : Len(progress[u]) <= 1

\* C19: at most one user has a given username, and every registration that
\* has been answered, alone or concurrent with another, was answered 201
\* (created) or 400 (the username is taken).
C19_RegistrationUnique ==
    /\ \A n \in Names : Cardinality(UserByName(n)) <= 1
    /\ \A s \in Slots :
          (reqs[s].pc = "done" /\ reqs[s].op = "register")
          => reqs[s].status \in {201, 400}

\* C19 without the answer: at most one user has a given username, and a
\* registration answered 400 or 500 found the username taken
C19_UsernameUnique ==
    /\ \A n \in Names : Cardinality(UserByName(n)) <= 1
    /\ \A s \in Slots :
          (reqs[s].pc = "done" /\ reqs[s].op = "register" /\ reqs[s].status # 201)
          => UserByName(reqs[s].name) # {}

\* the answers the two login forms give to (n, p) in the current state
LoginAnswer(n, p) == login_response(Found(n), Verified(n, p), Active(n))
LoginWebAnswer(n, p) == login_web_response(Found(n), Verified(n, p), Active(n), n)

\* C20: a login that fails because the username is unknown or the password is
\* wrong is answered 401 with the one bad-credentials response, in login and
\* in login_web, and issues no token; and whenever a step registers or
\* removes a username, the answer to the same form with a password that does
\* not match is the same before and after the step.
C20_LoginFailureUniform ==
    [][\A n \in Names, p \in Passwords \cup {"wrong"} :
         /\ (login(n, p) /\ ~Verified(n, p))
            => /\ last'.status = 401 /\ tokens' = tokens
               /\ last'.body = <<"bad_credentials", "WWW-Authenticate">>
         /\ (login_web(n, p) /\ ~Verified(n, p))
            => /\ last'.status = 401 /\ tokens' = tokens
               /\ last'.body = <<"login.html", "bad_credentials", n>>
         /\ (/\ Found(n) # Found(n)'
             /\ ~Verified(n, p) /\ ~Verified(n, p)')
            => /\ LoginAnswer(n, p) = LoginAnswer(n, p)'
               /\ LoginWebAnswer(n, p) = LoginWebAnswer(n, p)']_vars

\* C20 witness: login_web has just refused a registered username whose
\* password did not match, with the bad-credentials page
C20_Witness ==
    /\ last.op = "login_web" /\ last.status = 401
    /\ \E n \in Names :
          /\ Found(n) /\ ~Verified(n, "wrong")
          /\ last.body = <<"login.html", "bad_credentials", n>>

\* C21: for every cookie value, neither cookie resolver raises: each returns
\* a user or None, and no request fails with an unhandled error because of
\* its cookie.
C21_ResolverNeverRaises ==
    [][\A v \in CookieValues :
         /\ dashboard_request(v)
            => ~auth_cookie_resolver(v).raised /\ last'.status # 500
         /\ \A c \in CardIds : complete_card_web_request(v, c)
            => ~progress_cookie_resolver(v).raised /\ last'.status # 500]_vars

\* C21 for the resolver of app/api/progress.py alone
C21_ProgressResolverNeverRaises ==
    \A v \in CookieValues : ~progress_cookie_resolver(v).raised

\* C22: two successive accepted requests of one admin to set the active flag,
\* or the admin flag, of the same target leave the flag as the first left it.
C22_FlagRequestsIdempotent ==
    [][(/\ last.ok /\ last'.ok
        /\ last.op \in {"toggle_user_active", "toggle_user_admin"}
        /\ last'.op = last.op /\ last'.user = last.user /\ last'.arg = last.arg)
       => /\ users'[last.arg].is_active = users[last.arg].is_active
          /\ users'[last.arg].is_admin = users[last.arg].is_admin]_vars

\* C23: after an admin deletes a card no user has a completed row for it and
\* no user's completed_cards counts it any longer.
C23_DeleteCardResetsProgress ==
    [][\A c \in CardIds :
         (last'.op = "delete_card_web" /\ last'.ok /\ last'.arg = c)
         => \A u \in UserIds :
               /\ ~Completed(u, c)'
               /\ Agg(u)' = Agg(u) - (IF Completed(u, c) THEN 1 ELSE 0)]_vars

\* the access rule: the caller is an admin, owns the card, or the card is
\* public and its owner is an admin
MayReset(u, c) ==
    \/ users[u].is_admin
    \/ cards[c].owner_id = u
    \/ /\ cards[c].is_public
       /\ users[cards[c].owner_id] # NoRow
       /\ users[cards[c].owner_id].is_admin

\* C24: a reset_card_web request of a resolved user for an existing card is
\* answered 403 and changes no progress state when the access rule denies
\* the caller, and is never answered 403 when the rule allows the caller; an
\* admin is never answered 403.
C24_ResetAccessRule ==
    [][\A k \in Cookies, c \in CardIds :
         (/\ reset_card_web(k, c)
          /\ progress_get_user_from_cookie(k) # 0
          /\ cards[c] # NoRow)
         => LET u == progress_get_user_from_cookie(k) IN
            /\ ~MayReset(u, c) => last'.status = 403 /\ UNCHANGED <<progress, ucp>>
            /\ MayReset(u, c) => last'.status # 403
            /\ users[u].is_admin => last'.status # 403]_vars

\* C24 witness: reset_card_web has just refused, with 403, a non-admin who
\* does not own the card and whose card's owner is no admin any more
C24_Witness ==
    /\ last.op = "reset_card_web" /\ last.status = 403
    /\ last.user # 0 /\ users[last.user] # NoRow /\ ~users[last.user].is_admin
    /\ cards[last.arg] # NoRow /\ cards[last.arg].owner_id # last.user
    /\ ~MayReset(last.user, last.arg)

ActiveAdmins == {u \in UserIds : users[u] # NoRow /\ users[u].is_admin /\ users[u].is_active}

\* C28: from a state with an active admin, every step of concurrently
\* running toggle_user_admin, toggle_user_active, delete_user_admin and
\* delete_user requests leaves at least one user who is admin and active.
C28_ActiveAdminRemains ==
    [][ActiveAdmins # {} => ActiveAdmins' # {}]_vars

\* C28, one request at a time: an accepted request of the four leaves its
\* caller an active admin.
C28_SequentialAdminRemains ==
    [][(last'.ok /\ last'.op \in {"toggle_user_active", "toggle_user_admin",
                                    "delete_user_admin", "delete_user"})
       => last'.user \in ActiveAdmins']_vars

\* C25: a create_progress request of a resolved user who already has a
\* Progress row is answered 409 and leaves every Progress row as it was,
\* adding none.
C25_CreateConflict ==
    [][\A b \in BearerTokens, c \in CountFields, m \in MarkedFields :
         (/\ create_progress(b, c, m)
          /\ get_current_active_user(b).st = 200
          /\ progress[get_current_active_user(b).u] # <<>>)
         => last'.status = 409 /\ UNCHANGED progress]_vars

\* C25, for a user with exactly one row: 409, and the row is unchanged.
C25_SingleRowConflict ==
    [][\A b \in BearerTokens, c \in CountFields, m \in MarkedFields :
         (/\ create_progress(b, c, m)
          /\ get_current_active_user(b).st = 200
          /\ Len(progress[get_current_active_user(b).u]) = 1)
         => last'.status = 409 /\ UNCHANGED progress]_vars

\* C25: no create_progress request adds a row to a user who has one.
C25_NoSecondRowSequentially ==
    [][\A b \in BearerTokens, c \in CountFields, m \in MarkedFields :
         (create_progress(b, c, m) /\ last'.user # 0)
         => Len(progress'[last'.user]) <= Max({1, Len(progress[last'.user])})]_vars

\* C26: a token issued by create_access_token without an explicit lifetime
\* expires 30 minutes after it was issued.
C26_DefaultLifetime ==
    [][\A u \in UserIds :
         issue_token(u, NoDelta)
         => create_access_token(u, NoDelta).exp = now + ACCESS_TOKEN_EXPIRE_MINUTES]_vars

\* the cookie login_web writes for user u: "Bearer " and a signed token
\* whose subject is u
LoginWebCookieValue(u) ==
    [kind |-> "signed", bearer |-> TRUE, sub |-> [shape |-> "number", id |-> u]]

\* C27: the two cookie resolvers give the same answer for every cookie
\* value; the cookie written by an accepted login_web resolves to the user
\* who signed in under both.
C27_ResolversAgree ==
    [][\A u \in UserIds :
         (last'.op = "login_web" /\ last'.ok /\ last'.arg = u)
         => /\ (auth_cookie_resolver(LoginWebCookieValue(u)) = Returned(u))'
            /\ (progress_cookie_resolver(LoginWebCookieValue(u)) = Returned(u))'
            /\ \A v \in CookieValues :
                  (auth_cookie_resolver(v) = progress_cookie_resolver(v))']_vars

\* C27, the resolver of app/api/progress.py alone: it resolves the cookie
\* login_web has just written to the user who signed in.
C27_ProgressResolvesLoginCookie ==
    [][\A u \in UserIds :
         (last'.op = "login_web" /\ last'.ok /\ last'.arg = u)
         => (progress_cookie_resolver(LoginWebCookieValue(u)) = Returned(u))']_vars

OwnProgressOps == {"complete_card_web", "reset_card_web", "learn_card",
                   "unlearn_card", "create_progress", "update_my_progress"}

\* C29: a complete_card_web, reset_card_web, learn_card, unlearn_card,
\* create_progress or update_my_progress request of user u leaves the
\* Progress rows and every per-pair row of every other user unchanged.
C29_OthersUntouched ==
    [][last'.op \in OwnProgressOps
       => \A v \in UserIds \ {last'.user} :
             /\ progress'[v] = progress[v]
             /\ \A c \in CardIds : ucp'[<<v, c>>] = ucp[<<v, c>>]]_vars

\* C29 witness: one of the six requests has just written for its caller
\* while another user has a Progress row and a completed row for the card
C29_Witness ==
    /\ last.op \in {"reset_card_web", "unlearn_card", "complete_card_web"}
    /\ last.ok /\ last.user # 0
    /\ \E v \in UserIds \ {last.user} :
          /\ users[v] # NoRow
          /\ progress[v] # <<>>
          /\ Completed(v, last.arg)

====
